---- MODULE Spec2Model ----
(***************************************************************************)
(* code-sync: synchronising the editor's extensions with the `extensions`  *)
(* snapshot file.  The model follows the extended edition                  *)
(* (src/unnamed/part_000): the dispatch of the command-line argument, the  *)
(* copy steps of the settings commands and the promise chains of           *)
(* install-extensions and save-extensions, one action per handler of the   *)
(* chain, the external `code` commands settling in any order.              *)
(*                                                                         *)
(* Spec runs the two extensions commands one after the other on the same   *)
(* machine; SpecCli runs one process with any argument.                    *)
(*                                                                         *)
(* A text is a sequence of characters; an extension identifier is a        *)
(* non-empty text without a newline.                                       *)
(***************************************************************************)
EXTENDS Integers, Sequences, FiniteSets, TLC

\* Longest text of the initial listing and of the initial extensions file.
MaxText == 3

\* Number of processes started one after the other.
MaxRuns == 2

NL == "\n"

Chars == {"a", "b", NL}

Texts == UNION {[1..n -> Chars] : n \in 0..MaxText}

\* What the operator may type at the prompt (one line, without its newline).
Answers == {"y", "Y", "yes", " y", ""}

\* The keys of the commands object.
OwnCommands ==
    {"apply-all", "save-all", "save-settings", "apply-settings",
     "save-extensions", "install-extensions", "__unknown__"}

\* Properties that the commands object inherits from Object.prototype.
InheritedProperties == {"constructor", "toString", "hasOwnProperty", "__proto__"}

\* process.argv[2]; "undefined" is the missing argument
Args == OwnCommands \cup InheritedProperties \cup {"bogus", "undefined"}

VARIABLES
    command,               \* process.argv[2] of the running process
    pc,                    \* position in the promise chain
    codeExtensions,        \* the machine: what `code --list-extensions` prints
    extensionsFile,        \* ./extensions: [exists, data]
    listed,                \* value readInstalledExtensions() resolved with
    extensionsToInstall,
    extensionsToUninstall,
    rlOpen,                \* the readline interface holds stdin open
    answer,                \* the line given to the question callback
    installing,            \* per element of extensionsToInstall: pending/ok/failed
    uninstalling,          \* per element of extensionsToUninstall
    rejection,             \* error travelling down the chain to .catch
    exitCode,              \* -1 while the process is alive
    log,                   \* console output, in order
    previous,              \* command and outcome of the preceding process
    runs,                  \* processes started so far
    copies,                \* the copyFile calls of the process, in order
    question               \* the two lists as printed in the question

vars == <<command, pc, codeExtensions, extensionsFile, listed,
          extensionsToInstall, extensionsToUninstall, rlOpen, answer,
          installing, uninstalling, rejection, exitCode, log, previous, runs,
          copies, question>>

----------------------------------------------------------------------------
(* HELPERS *)

Range(s) == {s[i] : i \in DOMAIN s}

\* includes that starts its search after the first element
IncludesAfterFirst(base, value) ==
    \E i \in DOMAIN base : i > 1 /\ base[i] = value

\* Array.prototype.includes
Includes(base, value) == \E i \in DOMAIN base : base[i] = value

IndexOfNL(s) ==
    IF \E i \in DOMAIN s : s[i] = NL
    THEN CHOOSE i \in DOMAIN s : s[i] = NL /\ \A j \in 1..(i - 1) : s[j] # NL
    ELSE 0

\* String.prototype.split('\n'): the segments between the newlines
RECURSIVE Split(_)
Split(s) ==
    LET i == IndexOfNL(s) IN
    IF i = 0 THEN <<s>>
    ELSE <<SubSeq(s, 1, i - 1)>> \o Split(SubSeq(s, i + 1, Len(s)))

\* Boolean(string): the empty string is falsy
Truthy(line) == line # <<>>

\* the transformation without .filter(Boolean)
transformWithoutFilter(extensionsString) == Split(extensionsString)

transformExtensionsStringToArray(extensionsString) ==
    SelectSeq(Split(extensionsString), Truthy)

\* Array.prototype.join('\n')
RECURSIVE Join(_)
Join(lines) ==
    IF lines = <<>> THEN <<>>
    ELSE IF Len(lines) = 1 THEN lines[1]
    ELSE lines[1] \o <<NL>> \o Join(Tail(lines))

\* values.reduce((acc, value) => base.includes(value) ? acc : acc.push(value), [])
RECURSIVE diffFrom(_, _, _)
diffFrom(base, values, acc) ==
    IF values = <<>> THEN acc
    ELSE IF Includes(base, Head(values))
         THEN diffFrom(base, Tail(values), acc)
         ELSE diffFrom(base, Tail(values), Append(acc, Head(values)))

\* diff with the test inverted: keeps the values that base includes
diffInverted(base, values) ==
    SelectSeq(values, LAMBDA value : Includes(base, value))

\* diff with its arguments taken the other way round
diffSwapped(base, values) == diffFrom(values, base, <<>>)

\* diff with acc.unshift(value) for acc.push(value): the reverse order
diffUnshift(base, values) ==
    LET pushed == diffFrom(base, values, <<>>)
    IN  [i \in 1..Len(pushed) |-> pushed[Len(pushed) + 1 - i]]

diff(base, values) == diffFrom(base, values, <<>>)

\* The base edition (src/index.js) computes the plan inline:
\* savedExtensions.reduce((acc, extensionName) => ..., [])
RECURSIVE reduceToInstall(_, _, _)
reduceToInstall(installedExtensions, savedExtensions, acc) ==
    IF savedExtensions = <<>> THEN acc
    ELSE LET extensionName == Head(savedExtensions) IN
         IF Includes(installedExtensions, extensionName)
         THEN reduceToInstall(installedExtensions, Tail(savedExtensions), acc)
         ELSE reduceToInstall(installedExtensions, Tail(savedExtensions),
                              Append(acc, extensionName))

\* installedExtensions.reduce((acc, extensionName) => ..., [])
RECURSIVE reduceToUninstall(_, _, _)
reduceToUninstall(savedExtensions, installedExtensions, acc) ==
    IF installedExtensions = <<>> THEN acc
    ELSE LET extensionName == Head(installedExtensions) IN
         IF Includes(savedExtensions, extensionName)
         THEN reduceToUninstall(savedExtensions, Tail(installedExtensions),
                                acc)
         ELSE reduceToUninstall(savedExtensions, Tail(installedExtensions),
                                Append(acc, extensionName))

----------------------------------------------------------------------------
(* The external `code` command *)

\* code --install-extension: the extension is listed afterwards
InstallEffect(text, extension) ==
    LET lines == transformExtensionsStringToArray(text) IN
    IF Includes(lines, extension) THEN text
    ELSE Join(Append(lines, extension))

\* code --uninstall-extension: the extension is no longer listed
UninstallEffect(text, extension) ==
    LET lines == transformExtensionsStringToArray(text) IN
    IF Includes(lines, extension)
    THEN Join(SelectSeq(lines, LAMBDA l : l # extension))
    ELSE text

----------------------------------------------------------------------------

Entry(tag, ext) == [tag |-> tag, ext |-> ext]

Logged(tag) == \E i \in DOMAIN log : log[i].tag = tag

NoValue == [kind |-> "none", text |-> <<>>]
Undefined == [kind |-> "undefined", text |-> <<>>]
Stdout(text) == [kind |-> "string", text |-> text]

NoError == Entry("none", <<>>)

\* '' + undefined
UndefinedText == <<"u", "n", "d", "e", "f", "i", "n", "e", "d">>

Pending(states) == \E i \in DOMAIN states : states[i] = "pending"

\* fulfilled as soon as one promise is (Promise.race, Promise.any)
PromiseAnyFulfilled(states) ==
    states = <<>> \/ \E i \in DOMAIN states : states[i] = "ok"

\* Promise.all(promises) is fulfilled once every promise is
PromiseAllFulfilled(states) == \A i \in DOMAIN states : states[i] = "ok"

\* the comparison made without regard to case
DeclinedIgnoringCase(line) == line \notin {"y", "Y"}

\* answer !== 'y'
Declined(line) == line # "y"

\* the test with the second negation missing
NothingToDoSlip(toInstall, toUninstall) ==
    Len(toUninstall) = 0 /\ Len(toInstall) # 0

\* !extensionsToUninstall.length && !extensionsToInstall.length
NothingToDo(toInstall, toUninstall) ==
    Len(toUninstall) = 0 /\ Len(toInstall) = 0

\* command in commands: the operator `in` also finds inherited properties
HasCommand(arg) == arg \in OwnCommands \cup InheritedProperties

\* command in commands ? commands[command] : commands.__unknown__
Dispatch(arg) == IF HasCommand(arg) THEN arg ELSE "__unknown__"

\* The function of the extensions step that the command runs, if any.
ExtensionTask ==
    IF command \in {"install-extensions", "apply-all"} THEN "installExtensions"
    ELSE IF command \in {"save-extensions", "save-all"} THEN "saveExtensions"
    ELSE "none"

\* a promise without .catch(console.error) stays as it settled
WithoutCatch(settled) == settled

\* promise.then(...).catch(console.error): fulfilled however promise settled
WithCatch(settled) == "fulfilled"

\* What follows the copy of a file in the chain of the command.
AfterCopy(cmd, file) ==
    IF cmd \in {"apply-all", "save-all"}
    THEN (IF file = "settings" THEN "keybindings" ELSE "extensions")
    ELSE "done"

Copy(file) == [file |-> file, state |-> "pending"]

NoQuestion == [asked |-> FALSE, install |-> <<>>, uninstall |-> <<>>]

\* the question with the two lists in each other's place
QuestionSwapped(toInstall, toUninstall) ==
    [asked |-> TRUE, install |-> Join(toUninstall), uninstall |-> Join(toInstall)]

\* the lists of the question: extensionsToInstall.join('\n') and
\* extensionsToUninstall.join('\n')
QuestionOf(toInstall, toUninstall) ==
    [asked |-> TRUE,
     install |-> IF Len(toInstall) # 0 THEN Join(toInstall) ELSE <<>>,
     uninstall |-> IF Len(toUninstall) # 0 THEN Join(toUninstall) ELSE <<>>]

\* The outcome of the process, as the operator sees it.
Outcome ==
    IF pc # "exited" /\ pc # "chainDone" THEN "Running"
    ELSE IF Logged("nothing") THEN "NoOp"
    ELSE IF Logged("success") THEN
        (IF ExtensionTask = "saveExtensions" THEN "Saved" ELSE "Completed")
    ELSE IF answer # "none" /\ Declined(answer) THEN "Cancelled"
    ELSE IF Logged("unknown") THEN "Unknown"
    ELSE "Failed"

Init ==
    /\ command = "none"
    /\ pc = "idle"
    /\ codeExtensions \in Texts
    /\ extensionsFile \in
          {[exists |-> FALSE, data |-> <<>>]}
          \cup {[exists |-> TRUE, data |-> t] : t \in Texts}
    /\ listed = NoValue
    /\ extensionsToInstall = <<>>
    /\ extensionsToUninstall = <<>>
    /\ rlOpen = FALSE
    /\ answer = "none"
    /\ installing = <<>>
    /\ uninstalling = <<>>
    /\ rejection = NoError
    /\ exitCode = -1
    /\ log = <<>>
    /\ previous = [command |-> "none", outcome |-> "none", listed |-> "none"]
    /\ runs = 0
    /\ copies = <<>>
    /\ question = NoQuestion

----------------------------------------------------------------------------
(* COMMANDS *)

\* process.exit(code)
Exit(code) ==
    /\ pc' = "exited"
    /\ exitCode' = code
    /\ rlOpen' = FALSE

\* installExtensions / saveExtensions are called: the first lines up to
\* the call of readInstalledExtensions
StartExtensions(task, logSoFar) ==
    /\ pc' = "listing"
    /\ rlOpen' = (task = "installExtensions")
    /\ log' = Append(logSoFar, Entry("start", <<>>))
    /\ exitCode' = -1

\* run(): a new process is started with the command as its argument
Invoke(arg) ==
    /\ pc \in {"idle", "exited"}
    /\ runs < MaxRuns
    /\ runs' = runs + 1
    /\ previous' = [command |-> command,
                    outcome |-> IF pc = "idle" THEN "none" ELSE Outcome,
                    listed |-> listed.kind]
    /\ command' = arg
    /\ listed' = NoValue
    /\ extensionsToInstall' = <<>>
    /\ extensionsToUninstall' = <<>>
    /\ answer' = "none"
    /\ installing' = <<>>
    /\ uninstalling' = <<>>
    /\ rejection' = NoError
    /\ question' = NoQuestion
    /\ LET handler == Dispatch(arg) IN
       IF handler \in {"install-extensions", "save-extensions"}
       THEN /\ StartExtensions(IF handler = "install-extensions"
                               THEN "installExtensions"
                               ELSE "saveExtensions", <<>>)
            /\ copies' = <<>>
       ELSE IF handler \in {"apply-all", "save-all", "save-settings",
                            "apply-settings"}
       THEN \* saveSettings / applySettings: copyFile is called
            /\ pc' = "copying"
            /\ copies' = <<Copy("settings")>>
            /\ log' = <<Entry("settings", <<>>)>>
            /\ rlOpen' = FALSE
            /\ exitCode' = -1
       ELSE IF handler = "__unknown__"
       THEN /\ log' = <<Entry("unknown", <<>>)>>
            /\ Exit(0)
            /\ copies' = <<>>
       ELSE IF handler \in {"constructor", "toString"}
       THEN \* Object() and Object.prototype.toString() return
            /\ pc' = "chainDone"
            /\ log' = <<>>
            /\ rlOpen' = FALSE
            /\ exitCode' = -1
            /\ copies' = <<>>
       ELSE \* Object.prototype.hasOwnProperty() throws on an undefined
            \* this, Object.prototype is not a function: uncaught TypeError
            /\ log' = <<Entry("uncaught", <<>>)>>
            /\ Exit(1)
            /\ copies' = <<>>
    /\ UNCHANGED <<codeExtensions, extensionsFile>>

\* copyFile settles: .then(() => console.log('Success!')) or
\* .catch(console.error), and the next function of the chain is called
CopySettled(ok) ==
    /\ pc = "copying"
    /\ copies # <<>>
    /\ copies[Len(copies)].state = "pending"
    /\ LET file == copies[Len(copies)].file
           settled == [copies EXCEPT ![Len(copies)].state =
                          IF ok THEN "ok" ELSE "failed"]
           logged == Append(log, Entry(IF ok THEN "copied" ELSE "error", <<>>))
           next == AfterCopy(command, file)
       IN
       IF WithCatch(IF ok THEN "fulfilled" ELSE "rejected") # "fulfilled"
          \/ next = "done"
       THEN /\ copies' = settled
            /\ log' = logged
            /\ pc' = "chainDone"
            /\ UNCHANGED <<rlOpen, exitCode>>
       ELSE IF next = "keybindings"
       THEN /\ copies' = Append(settled, Copy("keybindings"))
            /\ log' = Append(logged, Entry("keybindings", <<>>))
            /\ UNCHANGED <<pc, rlOpen, exitCode>>
       ELSE /\ copies' = settled
            /\ StartExtensions(ExtensionTask, logged)
    /\ UNCHANGED <<command, codeExtensions, extensionsFile, listed,
                   extensionsToInstall, extensionsToUninstall, answer,
                   installing, uninstalling, rejection, previous, runs,
                   question>>

\* readInstalledExtensions: exec resolved with {stdout, stderr}
ListFulfilled(stderr) ==
    /\ pc = "listing"
    /\ IF stderr
       THEN /\ log' = Append(log, Entry("unable", <<>>))
            /\ Exit(1)
            /\ UNCHANGED listed
       ELSE /\ listed' = Stdout(codeExtensions)
            /\ pc' = "listed"
            /\ UNCHANGED <<log, exitCode, rlOpen>>
    /\ UNCHANGED <<command, codeExtensions, extensionsFile,
                   extensionsToInstall, extensionsToUninstall, answer,
                   installing, uninstalling, rejection, previous, runs, copies, question>>

\* readInstalledExtensions: exec rejected, .catch(console.error) resolves
\* with undefined
ListRejected ==
    /\ pc = "listing"
    /\ log' = Append(log, Entry("error", <<>>))
    /\ listed' = Undefined
    /\ pc' = "listed"
    /\ UNCHANGED <<command, codeExtensions, extensionsFile,
                   extensionsToInstall, extensionsToUninstall, rlOpen, answer,
                   installing, uninstalling, rejection, exitCode, previous,
                   runs, copies, question>>

\* saveExtensions: .then(list => writeFile('extensions', list)) and, once the
\* write has settled, .then(() => console.log('Success!'))
SaveWrite(ok, coerce) ==
    /\ pc = "listed"
    /\ ExtensionTask = "saveExtensions"
    /\ IF listed.kind = "undefined" /\ ~coerce
       THEN \* writeFile rejects data that is not a string or a buffer
            /\ rejection' = Entry("TypeError", <<>>)
            /\ pc' = "rejected"
            /\ UNCHANGED <<extensionsFile, log>>
       ELSE IF ~ok
       THEN /\ rejection' = Entry("WriteError", <<>>)
            /\ pc' = "rejected"
            /\ UNCHANGED <<extensionsFile, log>>
       ELSE /\ extensionsFile' =
                 [exists |-> TRUE,
                  data |-> IF listed.kind = "undefined" THEN UndefinedText
                           ELSE listed.text]
            /\ log' = Append(log, Entry("success", <<>>))
            /\ pc' = "chainDone"
            /\ UNCHANGED rejection
    /\ UNCHANGED <<command, codeExtensions, listed, extensionsToInstall,
                   extensionsToUninstall, rlOpen, answer, installing,
                   uninstalling, exitCode, previous, runs, copies, question>>

\* installExtensions: the handler that computes the plan and asks
Plan ==
    /\ pc = "listed"
    /\ ExtensionTask = "installExtensions"
    /\ IF listed.kind = "undefined"
       THEN \* undefined.split
            /\ rejection' = Entry("TypeError", <<>>)
            /\ pc' = "rejected"
            /\ UNCHANGED <<extensionsToInstall, extensionsToUninstall, log,
                           exitCode, rlOpen, question>>
       ELSE IF ~extensionsFile.exists
       THEN \* readFileSync throws
            /\ rejection' = Entry("ENOENT", <<>>)
            /\ pc' = "rejected"
            /\ UNCHANGED <<extensionsToInstall, extensionsToUninstall, log,
                           exitCode, rlOpen, question>>
       ELSE
         LET installedExtensions ==
                 transformExtensionsStringToArray(listed.text)
             savedExtensions ==
                 transformExtensionsStringToArray(extensionsFile.data)
             toInstall == diff(installedExtensions, savedExtensions)
             toUninstall == diff(savedExtensions, installedExtensions)
         IN
         IF Len(savedExtensions) = 0
         THEN /\ log' = Append(log, Entry("empty", <<>>))
              /\ Exit(1)
              /\ UNCHANGED <<extensionsToInstall, extensionsToUninstall,
                             rejection, question>>
         ELSE
              /\ extensionsToInstall' = toInstall
              /\ extensionsToUninstall' = toUninstall
              /\ UNCHANGED rejection
              /\ IF NothingToDo(toInstall, toUninstall)
                 THEN /\ log' = Append(log, Entry("nothing", <<>>))
                      /\ Exit(0)
                      /\ UNCHANGED question
                 ELSE /\ log' = Append(log, Entry("question", <<>>))
                      /\ question' = QuestionOf(toInstall, toUninstall)
                      /\ pc' = "asking"
                      /\ UNCHANGED <<exitCode, rlOpen>>
    /\ UNCHANGED <<command, codeExtensions, extensionsFile, listed, answer,
                   installing, uninstalling, previous, runs, copies>>

LogEach(tag, extensions) ==
    [i \in 1..Len(extensions) |-> Entry(tag, extensions[i])]

AllPending(extensions) == [i \in 1..Len(extensions) |-> "pending"]

\* installExtensions: the handler of the operator's answer
Answer(line) ==
    /\ pc = "asking"
    /\ answer' = line
    /\ IF Declined(line)
       THEN /\ Exit(0)
            /\ UNCHANGED <<log, installing>>
       ELSE /\ rlOpen' = FALSE
            /\ log' = log \o LogEach("installing", extensionsToInstall)
            /\ installing' = AllPending(extensionsToInstall)
            /\ pc' = "installing"
            /\ UNCHANGED exitCode
    /\ UNCHANGED <<command, codeExtensions, extensionsFile, listed,
                   extensionsToInstall, extensionsToUninstall, uninstalling,
                   rejection, previous, runs, copies, question>>

\* exec of one `code --install-extension` settles; the first rejection
\* rejects Promise.all
InstallSettled(i, ok) ==
    /\ i \in DOMAIN installing
    /\ installing[i] = "pending"
    /\ installing' = [installing EXCEPT ![i] = IF ok THEN "ok" ELSE "failed"]
    /\ codeExtensions' =
          IF ok THEN InstallEffect(codeExtensions, extensionsToInstall[i])
          ELSE codeExtensions
    /\ IF ~ok /\ pc = "installing"
       THEN /\ rejection' = Entry("InstallError", extensionsToInstall[i])
            /\ pc' = "rejected"
       ELSE UNCHANGED <<rejection, pc>>
    /\ UNCHANGED <<command, extensionsFile, listed, extensionsToInstall,
                   extensionsToUninstall, rlOpen, answer, uninstalling,
                   exitCode, log, previous, runs, copies, question>>

\* installExtensions: .then(() => Promise.all(extensionsToUninstall.map(...)))
StartUninstall ==
    /\ pc = "installing"
    /\ PromiseAllFulfilled(installing)
    /\ log' = log \o LogEach("uninstalling", extensionsToUninstall)
    /\ uninstalling' = AllPending(extensionsToUninstall)
    /\ pc' = "uninstalling"
    /\ UNCHANGED <<command, codeExtensions, extensionsFile, listed,
                   extensionsToInstall, extensionsToUninstall, rlOpen, answer,
                   installing, rejection, exitCode, previous, runs, copies, question>>

\* exec of one `code --uninstall-extension` settles
UninstallSettled(i, ok) ==
    /\ i \in DOMAIN uninstalling
    /\ uninstalling[i] = "pending"
    /\ uninstalling' =
          [uninstalling EXCEPT ![i] = IF ok THEN "ok" ELSE "failed"]
    /\ codeExtensions' =
          IF ok THEN UninstallEffect(codeExtensions, extensionsToUninstall[i])
          ELSE codeExtensions
    /\ IF ~ok /\ pc = "uninstalling"
       THEN /\ rejection' = Entry("UninstallError", extensionsToUninstall[i])
            /\ pc' = "rejected"
       ELSE UNCHANGED <<rejection, pc>>
    /\ UNCHANGED <<command, extensionsFile, listed, extensionsToInstall,
                   extensionsToUninstall, rlOpen, answer, installing,
                   exitCode, log, previous, runs, copies, question>>

\* installExtensions: .then(() => console.log('Success! ...'))
ReportSuccess ==
    /\ pc = "uninstalling"
    /\ PromiseAllFulfilled(uninstalling)
    /\ log' = Append(log, Entry("success", <<>>))
    /\ pc' = "chainDone"
    /\ UNCHANGED <<command, codeExtensions, extensionsFile, listed,
                   extensionsToInstall, extensionsToUninstall, rlOpen, answer,
                   installing, uninstalling, rejection, exitCode, previous,
                   runs, copies, question>>

\* .catch(console.error)
Catch ==
    /\ pc = "rejected"
    /\ log' = Append(log, Entry("error", rejection.ext))
    /\ pc' = "chainDone"
    /\ UNCHANGED <<command, codeExtensions, extensionsFile, listed,
                   extensionsToInstall, extensionsToUninstall, rlOpen, answer,
                   installing, uninstalling, rejection, exitCode, previous,
                   runs, copies, question>>

\* The chain has ended and nothing keeps the event loop alive: the process
\* ends with code 0.  An open readline interface keeps it alive.
Drain ==
    /\ pc = "chainDone"
    /\ ~rlOpen
    /\ ~Pending(installing)
    /\ ~Pending(uninstalling)
    /\ pc' = "exited"
    /\ exitCode' = 0
    /\ UNCHANGED <<command, codeExtensions, extensionsFile, listed,
                   extensionsToInstall, extensionsToUninstall, rlOpen, answer,
                   installing, uninstalling, rejection, log, previous, runs, copies, question>>

Next ==
    \/ \E cmd \in {"install-extensions", "save-extensions"} : Invoke(cmd)
    \/ \E stderr \in BOOLEAN : ListFulfilled(stderr)
    \/ ListRejected
    \/ \E ok \in BOOLEAN, coerce \in BOOLEAN : SaveWrite(ok, coerce)
    \/ Plan
    \/ \E line \in Answers : Answer(line)
    \/ \E i \in 1..Len(installing), ok \in BOOLEAN : InstallSettled(i, ok)
    \/ StartUninstall
    \/ \E i \in 1..Len(uninstalling), ok \in BOOLEAN : UninstallSettled(i, ok)
    \/ ReportSuccess
    \/ Catch
    \/ Drain

Spec == Init /\ [][Next]_vars

\* One process, started with any argument.
NextCli ==
    \/ \E arg \in Args : pc = "idle" /\ Invoke(arg)
    \/ \E ok \in BOOLEAN : CopySettled(ok)
    \/ \E stderr \in BOOLEAN : ListFulfilled(stderr)
    \/ ListRejected
    \/ \E ok \in BOOLEAN, coerce \in BOOLEAN : SaveWrite(ok, coerce)
    \/ Plan
    \/ \E line \in Answers : Answer(line)
    \/ \E i \in 1..Len(installing), ok \in BOOLEAN : InstallSettled(i, ok)
    \/ StartUninstall
    \/ \E i \in 1..Len(uninstalling), ok \in BOOLEAN : UninstallSettled(i, ok)
    \/ ReportSuccess
    \/ Catch
    \/ Drain

SpecCli == Init /\ [][NextCli]_vars

----------------------------------------------------------------------------
(* Vocabulary of the properties *)

Installing == ExtensionTask = "installExtensions"

\* the chain has ended and the open readline interface keeps the process
\* alive: no step is left to take
Suspended == pc = "chainDone" /\ rlOpen

Ended == pc = "exited" \/ Suspended

\* the handler that computes the plan has run on a successful listing
PlanHandlerRan ==
    Installing /\ listed.kind = "string" /\ pc \notin {"listing", "listed"}

LiveList == transformExtensionsStringToArray(listed.text)

SavedList == transformExtensionsStringToArray(extensionsFile.data)

\* extensionsToInstall and extensionsToUninstall have been assigned
PlanComputed ==
    PlanHandlerRan /\ extensionsFile.exists /\ Len(SavedList) > 0

\* an install or an uninstall command has been invoked
Invoked ==
    \/ installing # <<>>
    \/ uninstalling # <<>>
    \/ Logged("installing")
    \/ Logged("uninstalling")

Prompted == Logged("question") \/ answer # "none"

\* the text has no identifier: it is empty or has blank lines only
Blank(text) == \A i \in DOMAIN text : text[i] = NL

----------------------------------------------------------------------------
(* C1: the plan of install-extensions is the pair of set differences: as   *)
(* sets, extensionsToInstall = saved \ live and extensionsToUninstall =    *)
(* live \ saved; the two are disjoint, the first within saved, the second  *)
(* within live, and with the common identifiers they make up live \cup     *)
(* saved.                                                                  *)
C1_PlanIsSetDifference ==
    PlanComputed =>
        LET L == Range(LiveList)
            S == Range(SavedList)
            I == Range(extensionsToInstall)
            U == Range(extensionsToUninstall)
        IN  /\ I = S \ L
            /\ U = L \ S
            /\ I \cap U = {}
            /\ I \subseteq S
            /\ U \subseteq L
            /\ I \cup U \cup (L \cap S) = L \cup S

C1_Witness ==
    /\ PlanComputed
    /\ extensionsToInstall # <<>>
    /\ extensionsToUninstall # <<>>
    /\ Range(LiveList) \cap Range(SavedList) # {}

(* C2: with a non-empty plan, an install or uninstall command is invoked   *)
(* only after the answer 'y'; on any other answer the process exits with   *)
(* code 0, Cancelled, and nothing has been invoked.                        *)
C2_OnlyYConfirms ==
    /\ Invoked => answer = "y"
    /\ (Installing /\ answer \notin {"none", "y"}) =>
          /\ pc = "exited"
          /\ exitCode = 0
          /\ Outcome = "Cancelled"
          /\ ~Invoked

C2_Witness ==
    /\ Installing
    /\ answer = "Y"
    /\ pc = "exited"
    /\ ~NothingToDo(extensionsToInstall, extensionsToUninstall)

(* C3: no uninstall command is started before every install command of     *)
(* extensionsToInstall has settled.                                        *)
C3_UninstallAfterInstallsSettled ==
    (uninstalling # <<>> \/ Logged("uninstalling")) =>
        /\ Len(installing) = Len(extensionsToInstall)
        /\ \A i \in DOMAIN installing : installing[i] \in {"ok", "failed"}

C3_Witness ==
    /\ Len(installing) >= 2
    /\ Pending(uninstalling)

(* C4: after the answer 'y', when the install of one identifier fails,     *)
(* every identifier of extensionsToInstall has had its install attempt and *)
(* every identifier of extensionsToUninstall its uninstall attempt by the  *)
(* end of the run.                                                         *)
C4_FailureDoesNotBlockOthers ==
    (Installing /\ answer = "y" /\ pc = "exited"
       /\ \E i \in DOMAIN installing : installing[i] = "failed") =>
        /\ Len(installing) = Len(extensionsToInstall)
        /\ Len(uninstalling) = Len(extensionsToUninstall)

(* C5: after the answer 'y', the run ends Completed, with the success      *)
(* message, whatever installs or uninstalls failed.                        *)
C5_ConfirmedRunCompletes ==
    (Installing /\ answer = "y" /\ pc = "exited") =>
        /\ Logged("success")
        /\ Outcome = "Completed"

(* C6: when the computed extensionsToInstall and extensionsToUninstall are *)
(* both empty, the process exits with code 0 as NoOp, without the success  *)
(* message of a completed run, without a prompt and without any install or *)
(* uninstall command.                                                      *)
C6_EmptyPlanIsNoOp ==
    (PlanComputed /\ extensionsToInstall = <<>>
       /\ extensionsToUninstall = <<>>) =>
        /\ pc = "exited"
        /\ exitCode = 0
        /\ Outcome = "NoOp"
        /\ ~Logged("success")
        /\ ~Prompted
        /\ ~Invoked

C6_Witness ==
    /\ PlanComputed
    /\ Outcome = "NoOp"
    /\ Len(LiveList) >= 2
    /\ LiveList # SavedList

(* C7: when the extensions file that install-extensions parses is empty or *)
(* has blank lines only, the process exits with code 1 with no plan        *)
(* assigned, no prompt and no install or uninstall command.                *)
C7_EmptySnapshotAborts ==
    (PlanHandlerRan /\ extensionsFile.exists /\ Blank(extensionsFile.data)) =>
        /\ pc = "exited"
        /\ exitCode = 1
        /\ Logged("empty")
        /\ extensionsToInstall = <<>>
        /\ extensionsToUninstall = <<>>
        /\ ~Logged("nothing")
        /\ ~Prompted
        /\ ~Invoked

C7_Witness ==
    /\ PlanHandlerRan
    /\ extensionsFile.exists
    /\ extensionsFile.data = <<NL, NL>>
    /\ LiveList # <<>>
    /\ exitCode = 1

(* C8: when the extensions file is absent, install-extensions ends with    *)
(* exit code 1, with no prompt and no install or uninstall command.        *)
C8_AbsentSnapshotAborts ==
    (PlanHandlerRan /\ ~extensionsFile.exists /\ Ended) =>
        /\ exitCode = 1
        /\ ~Prompted
        /\ ~Invoked

(* C9: when listing the installed extensions fails, by a failed command or *)
(* by output on the error stream, the run ends with exit code 1 and takes  *)
(* no further step: no prompt, no install or uninstall, no snapshot write. *)
C9_ListingFailureAborts ==
    ((Logged("unable") \/ listed.kind = "undefined") /\ Ended) =>
        /\ exitCode = 1
        /\ ~Prompted
        /\ ~Invoked
        /\ ~Logged("success")

(* C10: after a run of install-extensions that was confirmed and in which  *)
(* every install and uninstall succeeded, the next run, with the same      *)
(* extensions file, computes an empty plan and ends NoOp.                  *)
C10_SecondRunIsNoOp ==
    (previous.command = "install-extensions"
       /\ previous.outcome = "Completed"
       /\ PlanHandlerRan) =>
        /\ PlanComputed
        /\ extensionsToInstall = <<>>
        /\ extensionsToUninstall = <<>>
        /\ Outcome = "NoOp"
        /\ exitCode = 0

C10_Witness ==
    /\ previous.command = "install-extensions"
    /\ previous.outcome = "Completed"
    /\ PlanHandlerRan
    /\ Len(LiveList) >= 2

----------------------------------------------------------------------------
(* Vocabulary of the later properties *)

\* the identifiers of the log entries with the tag, in order
InvokedWith(tag) ==
    LET entries == SelectSeq(log, LAMBDA e : e.tag = tag)
    IN  [i \in 1..Len(entries) |-> entries[i].ext]

Times(list, value) == Cardinality({i \in DOMAIN list : list[i] = value})

Failed(states) == {i \in DOMAIN states : states[i] = "failed"}

\* the subcommands of the command line
Subcommands == OwnCommands \ {"__unknown__"}

\* save-extensions wrote the listing and install-extensions, run next on
\* the unchanged machine, has parsed its own listing and the file
RoundTrip ==
    /\ previous.command = "save-extensions"
    /\ previous.outcome = "Saved"
    /\ previous.listed = "string"
    /\ command = "install-extensions"
    /\ PlanHandlerRan

(* C11: after the answer 'y', install is invoked exactly once per distinct *)
(* identifier of extensionsToInstall and uninstall exactly once per        *)
(* distinct identifier of extensionsToUninstall, also when an identifier   *)
(* is on more than one line of the listing or of the file.                 *)
C11_OncePerIdentifier ==
    /\ (Installing /\ answer = "y") =>
          /\ \A e \in Range(extensionsToInstall) :
                Times(InvokedWith("installing"), e) = 1
          /\ Len(installing) = Cardinality(Range(extensionsToInstall))
    /\ uninstalling # <<>> =>
          /\ \A e \in Range(extensionsToUninstall) :
                Times(InvokedWith("uninstalling"), e) = 1
          /\ Len(uninstalling) = Cardinality(Range(extensionsToUninstall))

(* C12: every install or uninstall invocation that fails is logged for its *)
(* identifier: at the end of a run with k failed invocations, k errors     *)
(* have been printed.                                                      *)
C12_EveryFailureLogged ==
    (Installing /\ answer = "y" /\ pc = "exited") =>
        /\ \A i \in Failed(installing) :
              Includes(InvokedWith("error"), extensionsToInstall[i])
        /\ \A i \in Failed(uninstalling) :
              Includes(InvokedWith("error"), extensionsToUninstall[i])
        /\ Len(InvokedWith("error")) =
              Cardinality(Failed(installing))
                 + Cardinality(Failed(uninstalling))

(* C13: for every argument that is not a subcommand, the missing argument  *)
(* and the names of inherited properties included, the process prints the  *)
(* unknown-command notice, runs no save, apply or install step and exits   *)
(* with code 0.                                                            *)
C13_UnknownArgumentNotice ==
    (command \notin Subcommands \cup {"none"} /\ Ended) =>
        /\ Logged("unknown")
        /\ exitCode = 0
        /\ copies = <<>>
        /\ ~Logged("start")

(* C14: no run is left suspended: when the promise chain of a command has  *)
(* ended, the readline interface is closed, so that the process ends.      *)
C14_NeverSuspended == pc = "chainDone" => ~rlOpen

(* C15: the plan is assigned once per run and then frozen: once the        *)
(* handler that computes it has run, extensionsToInstall,                  *)
(* extensionsToUninstall and the question stay as they are until the       *)
(* process ends; and the identifiers given to install and uninstall are,   *)
(* in order, those printed in the question.                                *)
C15_PlanFrozenAndShown ==
    /\ [][(PlanHandlerRan /\ runs' = runs) =>
            /\ extensionsToInstall' = extensionsToInstall
            /\ extensionsToUninstall' = extensionsToUninstall
            /\ question' = question]_vars
    /\ [](/\ answer = "y" =>
                /\ question.asked
                /\ InvokedWith("installing") =
                      transformExtensionsStringToArray(question.install)
                /\ Len(installing) = Len(InvokedWith("installing"))
          /\ uninstalling # <<>> =>
                /\ InvokedWith("uninstalling") =
                      transformExtensionsStringToArray(question.uninstall)
                /\ Len(uninstalling) = Len(InvokedWith("uninstalling"))
          /\ Range(InvokedWith("uninstalling")) \subseteq
                Range(transformExtensionsStringToArray(question.uninstall)))

C15_Witness ==
    /\ answer = "y"
    /\ Len(installing) >= 2
    /\ Pending(uninstalling)
    /\ pc = "uninstalling"

(* C16, as claimed: save-extensions followed by install-extensions on the  *)
(* unchanged machine ends NoOp with exit code 0, without prompt, install   *)
(* or uninstall, for every listing, the empty one included.                *)
C16_RoundTripIsNoOp ==
    RoundTrip =>
        /\ Outcome = "NoOp"
        /\ exitCode = 0
        /\ ~Prompted
        /\ ~Invoked

(* C16, amended: save-extensions followed by install-extensions on the     *)
(* unchanged machine ends NoOp with exit code 0, without prompt, install   *)
(* or uninstall, when the listing has an identifier; when it has none, the *)
(* file has none either and install-extensions exits with code 1, also     *)
(* without prompt, install or uninstall.                                   *)
C16_RoundTripOfNonEmptyIsNoOp ==
    RoundTrip =>
        /\ extensionsToInstall = <<>>
        /\ extensionsToUninstall = <<>>
        /\ ~Prompted
        /\ ~Invoked
        /\ pc = "exited"
        /\ IF LiveList # <<>>
           THEN Outcome = "NoOp" /\ exitCode = 0
           ELSE Logged("empty") /\ exitCode = 1

C16_Witness ==
    /\ RoundTrip
    /\ Outcome = "NoOp"
    /\ Len(LiveList) >= 2

(* C17: in apply-all and save-all the steps run in sequence: the copy of   *)
(* the key bindings starts after the copy of the settings has settled, the *)
(* extensions step after both have; a copy that fails is logged and the    *)
(* later steps still run.                                                  *)
C17_StepsInSequence ==
    command \in {"apply-all", "save-all"} =>
        /\ Len(copies) \in 1..2
        /\ copies[1].file = "settings"
        /\ Len(copies) = 2 =>
              /\ copies[2].file = "keybindings"
              /\ copies[1].state \in {"ok", "failed"}
        /\ (pc # "copying") =>
              /\ Len(copies) = 2
              /\ \A i \in DOMAIN copies : copies[i].state \in {"ok", "failed"}
              /\ Logged("start")
        /\ Logged("start") => pc # "copying"
        /\ Times([i \in DOMAIN log |-> log[i].tag], "error")
              >= Cardinality({i \in DOMAIN copies : copies[i].state = "failed"})

C17_Witness ==
    /\ command = "apply-all"
    /\ copies[1].state = "failed"
    /\ copies[2].state = "ok"
    /\ pc = "asking"

(* C18: save-extensions writes the extensions file only with the output of *)
(* a listing that succeeded: in a run whose listing command failed, the    *)
(* file is left as it was.                                                 *)
C18_FailedListingKeepsSnapshot ==
    [][(ExtensionTask = "saveExtensions" /\ listed.kind = "undefined") =>
          extensionsFile' = extensionsFile]_vars

(* C19: the plan that the extended edition computes with diff is, list for *)
(* list and in the same order, the plan of the base edition's two inline   *)
(* reduce computations; diff(base, values) is the elements of values that  *)
(* base does not contain, in the order of values.                          *)
C19_DiffMatchesInlineReduce ==
    PlanComputed =>
        /\ extensionsToInstall = reduceToInstall(LiveList, SavedList, <<>>)
        /\ extensionsToUninstall =
              reduceToUninstall(SavedList, LiveList, <<>>)
        /\ extensionsToInstall =
              SelectSeq(SavedList, LAMBDA v : v \notin Range(LiveList))
        /\ extensionsToUninstall =
              SelectSeq(LiveList, LAMBDA v : v \notin Range(SavedList))

C19_Witness ==
    /\ PlanComputed
    /\ Len(extensionsToInstall) >= 2
    /\ extensionsToInstall[1] # extensionsToInstall[2]
    /\ extensionsToUninstall # <<>>

====
